---------------------------- MODULE Spec2Model ----------------------------
(***************************************************************************)
(* Model of the risk-scoring pipeline of safe-rx-insights:                 *)
(*   processCSVData   (src/src/utils/csvProcessor.ts)                      *)
(*   applyRiskScoring (src/src/utils/riskEngine.ts)                        *)
(* and of the page that runs it:                                           *)
(*   CSVUploader      (src/src/components/CSVUploader.tsx)                 *)
(*   Index            (src/src/pages/Index.tsx)                            *)
(*                                                                         *)
(* Text is a sequence of characters.  A character is a one-character       *)
(* string, except that a column name, a date, or a vocabulary word         *)
(* ("Cash", "TRUE", ...) is one atom: none of them contains a separator   *)
(* or a quote, or starts or ends with white space, so the splitting and    *)
(* trimming code cannot tell the difference.                               *)
(*                                                                         *)
(* JavaScript values are tagged: Num(n), NaN, Undef, Str(s), Bool(b),      *)
(* List(l).  Numbers of a record are held in tenths (Num(855) is 85.5),    *)
(* the weighted score in units of 1/7200 and the confidence in             *)
(* hundredths, so that every sum of the engine is exact.                   *)
(***************************************************************************)
EXTENDS Integers, Sequences, FiniteSets, TLC

VARIABLES
  text,            \* the content of the uploaded file
  pc,              \* "reading", "rejected", "scoring" or "scored" ("idle"
                   \* where the page alone is modelled)
  rejection,       \* the message of the rejected promise, "" when none
  patients,        \* the array processCSVData resolved with
  scoredPatients,  \* the array applyRiskScoring is filling
  aiResult,        \* the result of the latest simulateAdvancedAIRiskScoring
  uploads,         \* the files the user has handed to the uploader, each
                   \* with the position and the locals of its handlers
  statePatients,   \* Index: the state "patients"
  isProcessing,    \* Index: the state "isProcessing"
  hasData,         \* Index: the state "hasData"
  validationError, \* CSVUploader: the state "validationError", <<>> for null
  toasts,          \* the titles handed to toast(), in order
  mounts,          \* how many times Index has mounted a CSVUploader
  progress,        \* CSVUploader: the state "progress" of the latest mount
  timers           \* for each file, the CSVUploader its progressInterval
                   \* updates, 0 when the interval is not set or cleared

\* The state of one pipeline run taken alone.
run == <<text, pc, rejection, patients, scoredPatients, aiResult>>

\* The progress bar of the CSVUploader.
bar == <<progress, timers>>

\* The state of the page.
page ==
  <<uploads, statePatients, isProcessing, hasData, validationError, toasts,
    mounts, bar>>

vars == <<run, page>>

-----------------------------------------------------------------------------
(* Characters *)

LF == "\n"
CR == "\r"
SP == " "
TAB == "\t"
COMMA == ","
DQ == "\""
DOT == "."
MINUS == "-"
PLUS == "+"

DigitVal ==
  [c \in {"0", "1", "2", "3", "4", "5", "6", "7", "8", "9"} |->
     CASE c = "0" -> 0 [] c = "1" -> 1 [] c = "2" -> 2 [] c = "3" -> 3
       [] c = "4" -> 4 [] c = "5" -> 5 [] c = "6" -> 6 [] c = "7" -> 7
       [] c = "8" -> 8 [] c = "9" -> 9]

IsDigit(c) == c \in DOMAIN DigitVal

IsWhite(c) == c \in {SP, CR, TAB, LF}

-----------------------------------------------------------------------------
(* JavaScript values *)

Num(n) == [t |-> "num", n |-> n]
NaN == [t |-> "nan"]
Undef == [t |-> "undefined"]
Str(s) == [t |-> "str", s |-> s]
Bool(b) == [t |-> "bool", b |-> b]
List(l) == [t |-> "list", l |-> l]

IsNum(v) == v.t = "num"

\* ToBoolean: 0, NaN, undefined, "" and false are falsy.
Truthy(v) ==
  CASE v.t = "num" -> v.n # 0
    [] v.t = "nan" -> FALSE
    [] v.t = "undefined" -> FALSE
    [] v.t = "str" -> v.s # <<>>
    [] v.t = "bool" -> v.b
    [] OTHER -> TRUE

\* a || b
JsOr(a, b) == IF Truthy(a) THEN a ELSE b

\* ToNumber of a value used in arithmetic: undefined becomes NaN.
ToNumber(v) == IF v.t = "num" THEN v ELSE NaN

\* a > k and a < k for a number k: false when a is NaN or undefined.
Gt(v, k) == ToNumber(v).t = "num" /\ v.n > k
Lt(v, k) == ToNumber(v).t = "num" /\ v.n < k

-----------------------------------------------------------------------------
(* String functions *)

Min(S) == CHOOSE x \in S : \A y \in S : x <= y
Max(S) == CHOOSE x \in S : \A y \in S : x >= y

\* String.prototype.split(sep) for a one-character separator.
RECURSIVE split(_, _)
split(s, sep) ==
  LET hits == {i \in 1..Len(s) : s[i] = sep}
  IN IF hits = {} THEN <<s>>
     ELSE <<SubSeq(s, 1, Min(hits) - 1)>>
            \o split(SubSeq(s, Min(hits) + 1, Len(s)), sep)

\* String.prototype.trim()
trim(s) ==
  LET keep == {i \in 1..Len(s) : ~IsWhite(s[i])}
  IN IF keep = {} THEN <<>> ELSE SubSeq(s, Min(keep), Max(keep))

\* value.replace(/"/g, '')
replaceQuotes(s) == SelectSeq(s, LAMBDA c : c # DQ)

\* x => x.trim().replace(/"/g, '')
cleanCell(s) == replaceQuotes(trim(s))

\* String.prototype.toLowerCase() on the atoms of the alphabet.
LowerChar(c) ==
  CASE c = "TRUE" -> "true"
    [] c = "True" -> "true"
    [] c = "FALSE" -> "false"
    [] c = "A" -> "a"
    [] OTHER -> c

toLowerCase(s) == [i \in 1..Len(s) |-> LowerChar(s[i])]

\* The longest prefix of s made of digits.
RECURSIVE DigitPrefix(_)
DigitPrefix(s) ==
  IF s # <<>> /\ IsDigit(s[1]) THEN <<s[1]>> \o DigitPrefix(Tail(s))
  ELSE <<>>

\* The value of a string of digits.
RECURSIVE DecimalValue(_)
DecimalValue(d) ==
  IF d = <<>> THEN 0
  ELSE 10 * DecimalValue(SubSeq(d, 1, Len(d) - 1)) + DigitVal[d[Len(d)]]

\* Leading white space and sign of a numeric literal.
Unsigned(s) ==
  LET w == {i \in 1..Len(s) : ~IsWhite(s[i])}
      b == IF w = {} THEN <<>> ELSE SubSeq(s, Min(w), Len(s))
  IN IF b # <<>> /\ b[1] \in {MINUS, PLUS} THEN Tail(b) ELSE b

Sign(s) ==
  LET w == {i \in 1..Len(s) : ~IsWhite(s[i])}
  IN IF w # {} /\ s[Min(w)] = MINUS THEN -1 ELSE 1

\* parseInt(value), in tenths: white space, a sign, then the digits up to
\* the first other character.  (The alphabet holds no "0x" prefix.)
parseInt(s) ==
  LET d == DigitPrefix(Unsigned(s))
  IN IF d = <<>> THEN NaN ELSE Num(Sign(s) * 10 * DecimalValue(d))

\* parseFloat(value), in tenths: white space, a sign, digits, then "." and
\* digits.  The cells of the model carry at most one fractional digit, and
\* the alphabet holds no exponent and no "Infinity".
parseFloat(s) ==
  LET u == Unsigned(s)
      d == DigitPrefix(u)
      r == SubSeq(u, Len(d) + 1, Len(u))
      f == IF r # <<>> /\ r[1] = DOT THEN DigitPrefix(Tail(r)) ELSE <<>>
      tenth == IF f = <<>> THEN 0 ELSE DigitVal[f[1]]
  IN IF d = <<>> /\ f = <<>> THEN NaN
     ELSE Num(Sign(s) * (10 * DecimalValue(d) + tenth))

-----------------------------------------------------------------------------
(* The record type and the parser *)

StringColumns ==
  {"Patient_ID", "Full_Name", "DOB", "Gender", "Prescriber_NPI",
   "Prescriber_DEA", "Prescriber_Name", "Pharmacy_Name", "Drug_Name",
   "Drug_Code", "Prescription_Date", "Dispense_Date", "Payment_Type",
   "Pickup_Method", "State_PDMP_Status"}

OptionalStringColumns == {"Refill_Date", "Notes"}

IntColumns == {"Days_Supplied", "Quantity", "Refill_Number"}

FloatColumns == {"Dosage_mg"}

Columns ==
  StringColumns \cup OptionalStringColumns \cup IntColumns \cup FloatColumns
    \cup {"Overlapping_Prescriptions", "Adherence_Score"}

CalculatedFields ==
  {"Risk_Level", "Risk_Score", "Flagged_Warnings", "AI_Confidence"}

Fields == Columns \cup CalculatedFields

\* The fields of PatientRecord that are not marked optional.
RequiredFields ==
  (Fields \ {"Refill_Date", "Adherence_Score", "Notes", "Prescriber_DEA"})

\* The switch with the numeric cases lacking their "|| 0".
CaseOfNoDefault(column, value) ==
  CASE column \in StringColumns -> Str(value)
    [] column \in OptionalStringColumns -> JsOr(Str(value), Undef)
    [] column \in IntColumns -> parseInt(value)
    [] column \in FloatColumns -> parseFloat(value)
    [] column = "Overlapping_Prescriptions" ->
         Bool(toLowerCase(value) = <<"true">>)
    [] column = "Adherence_Score" -> JsOr(parseFloat(value), Undef)

\* The body of one case of the switch, for a header that names a column.
CaseOf(column, value) ==
  CASE column \in StringColumns -> Str(value)
    [] column \in OptionalStringColumns -> JsOr(Str(value), Undef)
    [] column \in IntColumns -> JsOr(parseInt(value), Num(0))
    [] column \in FloatColumns -> JsOr(parseFloat(value), Num(0))
    [] column = "Overlapping_Prescriptions" ->
         Bool(toLowerCase(value) = <<"true">>)
    [] column = "Adherence_Score" -> JsOr(parseFloat(value), Undef)

\* values[index] || ''
ValueAt(values, index) ==
  IF index <= Len(values) THEN values[index] ELSE <<>>

\* headers.forEach(...) on a fresh object, then the calculated fields.
\* A column named twice keeps the value of its last occurrence.
ParsePatient(headers, values) ==
  [f \in Fields |->
     CASE f = "Risk_Level" -> Str(<<"Low">>)
       [] f = "Risk_Score" -> Num(0)
       [] f = "Flagged_Warnings" -> List(<<>>)
       [] f = "AI_Confidence" -> Num(0)
       [] OTHER ->
            LET at == {i \in 1..Len(headers) : headers[i] = <<f>>}
            IN IF at = {} THEN Undef
               ELSE CaseOf(f, ValueAt(values, Max(at)))]

\* array.unshift(x)
unshift(array, x) == <<x>> \o array

\* array.push(x)
push(array, x) == Append(array, x)

\* lines[0].split(',').map(h => h.trim().replace(/"/g, ''))
Cells(line) ==
  LET raw == split(line, COMMA)
  IN [i \in 1..Len(raw) |-> cleanCell(raw[i])]

\* for (let i = 1; i < lines.length; i++) { ... }   (i is 1-based here)
RECURSIVE ParseLines(_, _, _, _)
ParseLines(lines, i, headers, acc) ==
  IF i > Len(lines) THEN acc
  ELSE LET line == trim(lines[i])
       IN IF line = <<>> THEN ParseLines(lines, i + 1, headers, acc)
          ELSE ParseLines(lines, i + 1, headers,
                          push(acc, ParsePatient(headers, Cells(line))))

FormatError == "CSV file must contain at least a header row and one data row"
ReadFailure == "Error reading file"

\* The body of reader.onload: the settlement of the promise.
ProcessText(t) ==
  LET lines == split(t, LF)
  IN IF Len(lines) < 2
     THEN [ok |-> FALSE, error |-> FormatError, patients |-> <<>>]
     ELSE [ok |-> TRUE, error |-> "",
           patients |-> ParseLines(lines, 2, Cells(lines[1]), <<>>)]

-----------------------------------------------------------------------------
(* Dates: new Date(s) of the date atoms of the alphabet; any other string  *)
(* of the model is an Invalid Date.  No date atom is a 1 January, so the   *)
(* local year of getFullYear() is the year written.                        *)

Calendar ==
  [d \in {"2024-01-10", "2024-01-15", "2024-01-16", "2024-01-20",
          "2024-01-25", "2024-01-26", "2024-02-14", "1985-03-15",
          "1990-07-08", "1975-09-14", "2001-06-01", "1940-02-02"} |->
     CASE d = "2024-01-10" -> [year |-> 2024, day |-> 19732]
       [] d = "2024-01-15" -> [year |-> 2024, day |-> 19737]
       [] d = "2024-01-16" -> [year |-> 2024, day |-> 19738]
       [] d = "2024-01-20" -> [year |-> 2024, day |-> 19742]
       [] d = "2024-01-25" -> [year |-> 2024, day |-> 19747]
       [] d = "2024-01-26" -> [year |-> 2024, day |-> 19748]
       [] d = "2024-02-14" -> [year |-> 2024, day |-> 19767]
       [] d = "1985-03-15" -> [year |-> 1985, day |-> 5552]
       [] d = "1990-07-08" -> [year |-> 1990, day |-> 7493]
       [] d = "1975-09-14" -> [year |-> 1975, day |-> 2082]
       [] d = "2001-06-01" -> [year |-> 2001, day |-> 11474]
       [] d = "1940-02-02" -> [year |-> 1940, day |-> -10926]]

IsDate(v) == v.t = "str" /\ Len(v.s) = 1 /\ v.s[1] \in DOMAIN Calendar

\* new Date(v).getTime() in days since the epoch (a plain integer), or NaN.
getTimeDays(v) == IF IsDate(v) THEN Num(Calendar[v.s[1]].day) ELSE NaN

\* new Date(v).getFullYear(), or NaN.
getFullYear(v) == IF IsDate(v) THEN Num(Calendar[v.s[1]].year) ELSE NaN

\* Math.floor((refill.getTime() - prescription.getTime()) / 86400000)
DaysBetween(patient) ==
  LET r == getTimeDays(patient["Refill_Date"])
      q == getTimeDays(patient["Prescription_Date"])
  IN IF IsNum(r) /\ IsNum(q) THEN Num(r.n - q.n) ELSE NaN

\* days / supplied < k/10, where days is whole days and supplied is in
\* tenths: the quotient is -Infinity, +Infinity or NaN when supplied is 0.
RatioLt(days, supplied, k) ==
  /\ IsNum(days)
  /\ IsNum(supplied)
  /\ IF supplied.n = 0 THEN days.n < 0
     ELSE IF supplied.n > 0 THEN 100 * days.n < k * supplied.n
     ELSE 100 * days.n > k * supplied.n

\* days < supplied * k/100
DaysLt(days, supplied, k) ==
  IsNum(days) /\ IsNum(supplied) /\ 1000 * days.n < k * supplied.n

-----------------------------------------------------------------------------
(* simulateAdvancedAIRiskScoring: score in 1/7200, confidence in 1/100 *)

\* n hundredths of the score.
Pts(n) == 72 * n

Delta(s, c, f) == [score |-> s, confidence |-> c, factors |-> f]
NoDelta == Delta(Num(0), 0, <<>>)

\* The dosage bands added up: a dosage above 120 also counts as above 80
\* and above 50.
DosageScoreCumulative(patient) ==
  Delta(Num(Pts((IF Gt(patient["Dosage_mg"], 1200) THEN 40 ELSE 0)
                  + (IF Gt(patient["Dosage_mg"], 800) THEN 30 ELSE 0)
                  + (IF Gt(patient["Dosage_mg"], 500) THEN 20 ELSE 0))),
        0,
        IF Gt(patient["Dosage_mg"], 1200) THEN <<"Very High Dosage">>
        ELSE IF Gt(patient["Dosage_mg"], 800) THEN <<"High Dosage">>
        ELSE IF Gt(patient["Dosage_mg"], 500) THEN <<"Moderate Dosage">>
        ELSE <<>>)

DosageScore(patient) ==
  IF Gt(patient["Dosage_mg"], 1200)
    THEN Delta(Num(Pts(40)), 0, <<"Very High Dosage">>)
  ELSE IF Gt(patient["Dosage_mg"], 800)
    THEN Delta(Num(Pts(30)), 0, <<"High Dosage">>)
  ELSE IF Gt(patient["Dosage_mg"], 500)
    THEN Delta(Num(Pts(20)), 0, <<"Moderate Dosage">>)
  ELSE NoDelta

\* Math.max(Quantity / 180, 1) * 0.25: the cap taken as a floor.
QuantityScoreMax(patient) ==
  LET q == ToNumber(patient["Quantity"])
  IN Delta(IF IsNum(q) THEN Num(IF q.n > 1800 THEN q.n ELSE 1800) ELSE NaN,
           0,
           IF Gt(q, 1200) THEN <<"High Quantity">> ELSE <<>>)

\* Math.min(Quantity / 180, 1) * 0.25: a quantity of q tenths is q/7200.
QuantityScore(patient) ==
  LET q == ToNumber(patient["Quantity"])
  IN Delta(IF IsNum(q) THEN Num(IF q.n < 1800 THEN q.n ELSE 1800) ELSE NaN,
           0,
           IF Gt(q, 1200) THEN <<"High Quantity">> ELSE <<>>)

DaysSuppliedScore(patient) ==
  LET d == ToNumber(patient["Days_Supplied"])
      dev == IF d.n >= 300 THEN d.n - 300 ELSE 300 - d.n
  IN IF IsNum(d) /\ dev > 150
       THEN Delta(Num(Pts(15)), 0, <<"Unusual Supply Duration">>)
     ELSE NoDelta

\* The payment rule with no factor pushed for a cash payment.
PaymentScoreNoFactor(patient) ==
  IF patient["Payment_Type"] = Str(<<"Cash">>)
    THEN Delta(Num(Pts(20)), -5, <<>>)
  ELSE IF patient["Payment_Type"] = Str(<<"Medicaid">>)
    THEN Delta(Num(Pts(5)), 0, <<>>)
  ELSE NoDelta

PaymentScore(patient) ==
  IF patient["Payment_Type"] = Str(<<"Cash">>)
    THEN Delta(Num(Pts(20)), -5, <<"Cash Payment">>)
  ELSE IF patient["Payment_Type"] = Str(<<"Medicaid">>)
    THEN Delta(Num(Pts(5)), 0, <<>>)
  ELSE NoDelta

RefillScore(patient) ==
  IF Gt(patient["Refill_Number"], 50)
    THEN Delta(Num(Pts(15)), 0, <<"Excessive Refills">>)
  ELSE IF Gt(patient["Refill_Number"], 30)
    THEN Delta(Num(Pts(8)), 0, <<"Multiple Refills">>)
  ELSE NoDelta

EarlyRefillScore(patient) ==
  IF Truthy(patient["Refill_Date"]) /\ Truthy(patient["Prescription_Date"])
    THEN IF RatioLt(DaysBetween(patient), ToNumber(patient["Days_Supplied"]), 7)
           THEN Delta(Num(Pts(25)), 0, <<"Early Refill">>)
         ELSE IF RatioLt(DaysBetween(patient),
                         ToNumber(patient["Days_Supplied"]), 8)
           THEN Delta(Num(Pts(15)), 0, <<"Slightly Early Refill">>)
         ELSE NoDelta
  ELSE NoDelta

OverlapScore(patient) ==
  IF Truthy(patient["Overlapping_Prescriptions"])
    THEN Delta(Num(Pts(25)), 10, <<"Overlapping Prescriptions">>)
  ELSE NoDelta

PDMPScore(patient) ==
  IF patient["State_PDMP_Status"] = Str(<<"Unmatched">>)
    THEN Delta(Num(Pts(20)), 0, <<"PDMP Unmatched">>)
  ELSE IF patient["State_PDMP_Status"] = Str(<<"Not Available">>)
    THEN Delta(Num(Pts(10)), -5, <<"PDMP Unavailable">>)
  ELSE NoDelta

AdherenceScore(patient) ==
  IF patient["Adherence_Score"] # Undef
    THEN IF Lt(patient["Adherence_Score"], 500)
           THEN Delta(Num(Pts(15)), 0, <<"Very Poor Adherence">>)
         ELSE IF Lt(patient["Adherence_Score"], 700)
           THEN Delta(Num(Pts(10)), 0, <<"Poor Adherence">>)
         ELSE IF Gt(patient["Adherence_Score"], 950)
           THEN Delta(Num(Pts(5)), 0, <<"Perfect Adherence">>)
         ELSE NoDelta
  ELSE NoDelta

PickupScore(patient) ==
  IF patient["Pickup_Method"] = Str(<<"Third-party">>)
    THEN Delta(Num(Pts(10)), 0, <<"Third-party Pickup">>)
  ELSE IF patient["Pickup_Method"] = Str(<<"Delivery">>)
    THEN Delta(Num(Pts(5)), 0, <<"Delivery Method">>)
  ELSE NoDelta

highRiskDrugs == {"Oxycodone", "Fentanyl", "Morphine", "Hydrocodone"}

\* array.includes(value) for an array of one-atom strings
includes(array, v) == v.t = "str" /\ Len(v.s) = 1 /\ v.s[1] \in array

DrugScore(patient) ==
  IF includes(highRiskDrugs, patient["Drug_Name"])
    THEN Delta(Num(Pts(10)), 0, <<"High-Risk Opioid">>)
  ELSE NoDelta

\* year is new Date().getFullYear()
AgeScore(patient, year) ==
  LET born == getFullYear(patient["DOB"])
  IN IF Truthy(patient["DOB"]) /\ IsNum(born)
          /\ (year - born.n < 25 \/ year - born.n > 75)
       THEN Delta(Num(Pts(5)), 0, <<"Age Risk Factor">>)
     ELSE NoDelta

\* a + b
Plus(a, b) == IF IsNum(a) /\ IsNum(b) THEN Num(a.n + b.n) ELSE NaN

\* Math.max(lo, x): the clamp without its upper bound.
ClampBelowOnly(lo, hi, x) ==
  IF ~IsNum(x) THEN NaN
  ELSE IF x.n < lo THEN Num(lo)
  ELSE x

\* Math.max(lo, Math.min(hi, x)): NaN stays NaN.
Clamp(lo, hi, x) ==
  IF ~IsNum(x) THEN NaN
  ELSE IF x.n > hi THEN Num(hi)
  ELSE IF x.n < lo THEN Num(lo)
  ELSE x

ScoreRules(patient, year) ==
  <<DosageScore(patient), QuantityScore(patient), DaysSuppliedScore(patient),
    PaymentScore(patient), RefillScore(patient), EarlyRefillScore(patient),
    OverlapScore(patient), PDMPScore(patient), AdherenceScore(patient),
    PickupScore(patient), DrugScore(patient), AgeScore(patient, year)>>

RECURSIVE SumDeltas(_)
SumDeltas(ds) ==
  IF ds = <<>> THEN NoDelta
  ELSE LET rest == SumDeltas(SubSeq(ds, 1, Len(ds) - 1))
           last == ds[Len(ds)]
       IN Delta(Plus(rest.score, last.score),
                rest.confidence + last.confidence,
                rest.factors \o last.factors)

\* The score when "score += mlVariation" has run, before it is normalized.
scoreBeforeClamp(patient, year, mlVariation) ==
  Plus(SumDeltas(ScoreRules(patient, year)).score, Num(mlVariation))

\* mlVariation is (Math.random() - 0.5) * 0.08, in 1/7200.
simulateAdvancedAIRiskScoring(patient, year, mlVariation) ==
  LET sum == SumDeltas(ScoreRules(patient, year))
      conf == 80 + sum.confidence
               + (IF Len(sum.factors) > 5 THEN 10 ELSE 0)
               - (IF Len(sum.factors) < 2 THEN 10 ELSE 0)
  IN [score |-> Clamp(0, 7200, scoreBeforeClamp(patient, year, mlVariation)),
      confidence |-> Clamp(50, 100, Num(conf)),
      factors |-> sum.factors]

-----------------------------------------------------------------------------
(* applyEnhancedBusinessRules *)

isCash(patient) == patient["Payment_Type"] = Str(<<"Cash">>)
isThirdParty(patient) == patient["Pickup_Method"] = Str(<<"Third-party">>)

EarlyRefillWarning(patient) ==
  IF Truthy(patient["Refill_Date"]) /\ Truthy(patient["Prescription_Date"])
    THEN IF DaysLt(DaysBetween(patient),
                   ToNumber(patient["Days_Supplied"]), 60)
           THEN <<"Very Early Refill Attempt">>
         ELSE IF DaysLt(DaysBetween(patient),
                        ToNumber(patient["Days_Supplied"]), 75)
           THEN <<"Early Refill Attempt">>
         ELSE <<>>
  ELSE <<>>

DosageWarning(patient) ==
  IF Gt(patient["Dosage_mg"], 1200) THEN <<"Extremely High Dosage">>
  ELSE IF Gt(patient["Dosage_mg"], 900) THEN <<"High Dosage Prescription">>
  ELSE IF Gt(patient["Dosage_mg"], 600) THEN <<"Elevated Dosage">>
  ELSE <<>>

QuantityWarning(patient) ==
  IF Gt(patient["Quantity"], 1800) THEN <<"Excessive Quantity Dispensed">>
  ELSE IF Gt(patient["Quantity"], 1200) THEN <<"High Quantity Dispensed">>
  ELSE <<>>

OverlapWarning(patient) ==
  IF Truthy(patient["Overlapping_Prescriptions"])
    THEN <<"Overlapping Prescriptions Detected">>
  ELSE <<>>

CashWarning(patient) ==
  IF isCash(patient) /\ Gt(patient["Quantity"], 900)
    THEN <<"Cash Payment High Quantity">>
  ELSE IF isCash(patient) /\ Gt(patient["Dosage_mg"], 600)
    THEN <<"Cash Payment High Dosage">>
  ELSE <<>>

RefillWarning(patient) ==
  IF Gt(patient["Refill_Number"], 60) THEN <<"Excessive Refills">>
  ELSE IF Gt(patient["Refill_Number"], 40) THEN <<"Multiple Refills">>
  ELSE <<>>

PDMPWarning(patient) ==
  IF patient["State_PDMP_Status"] = Str(<<"Unmatched">>)
    THEN <<"PDMP Status Unmatched">>
  ELSE IF patient["State_PDMP_Status"] = Str(<<"Not Available">>)
    THEN <<"PDMP Data Unavailable">>
  ELSE <<>>

AdherenceWarning(patient) ==
  IF patient["Adherence_Score"] # Undef
    THEN IF Lt(patient["Adherence_Score"], 500)
           THEN <<"Very Low Adherence Score">>
         ELSE IF Lt(patient["Adherence_Score"], 600)
           THEN <<"Low Adherence Score">>
         ELSE IF Gt(patient["Adherence_Score"], 980)
           THEN <<"Suspiciously High Adherence">>
         ELSE <<>>
  ELSE <<>>

PickupWarning(patient) ==
  IF isThirdParty(patient) /\ Gt(patient["Quantity"], 900)
    THEN <<"Third-party Pickup High Quantity">>
  ELSE IF isThirdParty(patient) /\ Gt(patient["Refill_Number"], 30)
    THEN <<"Third-party Pickup Multiple Refills">>
  ELSE <<>>

DaysSuppliedWarning(patient) ==
  IF Lt(patient["Days_Supplied"], 70) /\ Gt(patient["Quantity"], 600)
    THEN <<"Short Supply High Quantity">>
  ELSE IF Gt(patient["Days_Supplied"], 900)
    THEN <<"Extended Supply Duration">>
  ELSE <<>>

controlledSubstances ==
  {"Oxycodone", "Fentanyl", "Morphine", "Hydrocodone", "Codeine"}

ControlledWarning(patient) ==
  IF includes(controlledSubstances, patient["Drug_Name"])
       /\ Gt(patient["Dosage_mg"], 800)
    THEN <<"High-Risk Controlled Substance">>
  ELSE <<>>

\* The rules with the dosage rule evaluated a second time at the end.
applyEnhancedBusinessRulesDosageTwice(patient) ==
  EarlyRefillWarning(patient) \o DosageWarning(patient)
    \o QuantityWarning(patient) \o OverlapWarning(patient)
    \o CashWarning(patient) \o RefillWarning(patient)
    \o PDMPWarning(patient) \o AdherenceWarning(patient)
    \o PickupWarning(patient) \o DaysSuppliedWarning(patient)
    \o ControlledWarning(patient) \o DosageWarning(patient)

\* The labels each rule can push, in the order the rules are evaluated.
WarningLabels ==
  << {"Very Early Refill Attempt", "Early Refill Attempt"},
     {"Extremely High Dosage", "High Dosage Prescription", "Elevated Dosage"},
     {"Excessive Quantity Dispensed", "High Quantity Dispensed"},
     {"Overlapping Prescriptions Detected"},
     {"Cash Payment High Quantity", "Cash Payment High Dosage"},
     {"Excessive Refills", "Multiple Refills"},
     {"PDMP Status Unmatched", "PDMP Data Unavailable"},
     {"Very Low Adherence Score", "Low Adherence Score",
      "Suspiciously High Adherence"},
     {"Third-party Pickup High Quantity",
      "Third-party Pickup Multiple Refills"},
     {"Short Supply High Quantity", "Extended Supply Duration"},
     {"High-Risk Controlled Substance"} >>

applyEnhancedBusinessRules(patient) ==
  EarlyRefillWarning(patient) \o DosageWarning(patient)
    \o QuantityWarning(patient) \o OverlapWarning(patient)
    \o CashWarning(patient) \o RefillWarning(patient)
    \o PDMPWarning(patient) \o AdherenceWarning(patient)
    \o PickupWarning(patient) \o DaysSuppliedWarning(patient)
    \o ControlledWarning(patient)

-----------------------------------------------------------------------------
(* applyRiskScoring *)

TypeError == "TypeError"

\* The engine throwing also where a record has no drug name, as a method
\* call on the field would.
ThrowsOnMissingDrugName(patient) ==
  patient = Undef \/ patient["Drug_Name"] = Undef

\* The statements of the engine read properties of the patient, compare and
\* add them, construct Dates from them and hand them to includes(): none
\* throws for a patient that is an object, whatever its fields hold (a
\* missing field reads as undefined, undefined in arithmetic is NaN, an
\* unparsable date is an Invalid Date).  A property read of a patient that
\* is undefined is a TypeError.
Throws(patient) == patient = Undef

\* The tier without its last branch: Medium only from 0.45 or 3 warnings.
RiskLevelTwoBands(score, warnings) ==
  IF Gt(score, 5400) \/ Len(warnings) > 4 THEN "High"
  ELSE IF Gt(score, 3240) \/ Len(warnings) > 2 THEN "Medium"
  ELSE "Low"

\* The tier taken from the score alone.
RiskLevelScoreOnly(score, warnings) ==
  IF Gt(score, 5400) THEN "High"
  ELSE IF Gt(score, 1800) THEN "Medium"
  ELSE "Low"

\* The tier: 0.75, 0.45 and 0.25 of the score are 5400, 3240 and 1800.
RiskLevel(score, warnings) ==
  IF Gt(score, 5400) \/ Len(warnings) > 4 THEN "High"
  ELSE IF Gt(score, 3240) \/ Len(warnings) > 2 THEN "Medium"
  ELSE IF Gt(score, 1800) \/ Len(warnings) > 0 THEN "Medium"
  ELSE "Low"

\* { ...patient, Risk_Level, Risk_Score, Flagged_Warnings, AI_Confidence }
UpdatedPatient(patient, result, warnings) ==
  [patient EXCEPT !["Risk_Level"] = Str(<<RiskLevel(result.score, warnings)>>),
                  !["Risk_Score"] = result.score,
                  !["Flagged_Warnings"] = List(warnings),
                  !["AI_Confidence"] = result.confidence]

-----------------------------------------------------------------------------
(* The pipeline: processCSVData, then applyRiskScoring *)

\* The values Math.random() and new Date() hand to one scoring call.
MlVariations == {-288, 0, 287}
Years == {2025, 2027}

NoResult == [score |-> Num(0), confidence |-> Num(0), factors |-> <<>>]

\* reader.onload of processCSVData
ReaderOnLoad ==
  /\ pc = "reading"
  /\ LET settled == ProcessText(text)
     IN IF settled.ok
          THEN /\ pc' = "scoring"
               /\ patients' = settled.patients
               /\ UNCHANGED rejection
          ELSE /\ pc' = "rejected"
               /\ rejection' = settled.error
               /\ UNCHANGED patients
  /\ UNCHANGED <<text, scoredPatients, aiResult, page>>

\* reader.onerror of processCSVData
ReaderOnError ==
  /\ pc = "reading"
  /\ pc' = "rejected"
  /\ rejection' = ReadFailure
  /\ UNCHANGED <<text, patients, scoredPatients, aiResult, page>>

\* The loop body with the score variable declared outside the loop: each
\* record's score starts from the score of the record before it.
ScorePatientCarryOver ==
  /\ pc = "scoring"
  /\ Len(scoredPatients) < Len(patients)
  /\ \E year \in Years, mlVariation \in MlVariations :
       LET patient == patients[Len(scoredPatients) + 1]
           alone == simulateAdvancedAIRiskScoring(patient, year, mlVariation)
           result ==
             [alone EXCEPT
                !.score = Clamp(0, 7200, Plus(alone.score, aiResult.score))]
           warnings == applyEnhancedBusinessRules(patient)
       IN /\ aiResult' = result
          /\ scoredPatients' =
               push(scoredPatients, UpdatedPatient(patient, result, warnings))
  /\ UNCHANGED <<text, pc, rejection, patients, page>>

\* The loop body writing the calculated fields into the record it was
\* handed and pushing that same record.
ScorePatientInPlace ==
  /\ pc = "scoring"
  /\ Len(scoredPatients) < Len(patients)
  /\ \E year \in Years, mlVariation \in MlVariations :
       LET i == Len(scoredPatients) + 1
           result ==
             simulateAdvancedAIRiskScoring(patients[i], year, mlVariation)
           warnings == applyEnhancedBusinessRules(patients[i])
           updated == UpdatedPatient(patients[i], result, warnings)
       IN /\ aiResult' = result
          /\ patients' = [patients EXCEPT ![i] = updated]
          /\ scoredPatients' = push(scoredPatients, updated)
  /\ UNCHANGED <<text, pc, rejection, page>>

\* The loop body with a warning that looks at the score: a score above 0.25
\* is flagged.
ScorePatientFlagsScore ==
  /\ pc = "scoring"
  /\ Len(scoredPatients) < Len(patients)
  /\ \E year \in Years, mlVariation \in MlVariations :
       LET patient == patients[Len(scoredPatients) + 1]
           result == simulateAdvancedAIRiskScoring(patient, year, mlVariation)
           warnings ==
             applyEnhancedBusinessRules(patient)
               \o (IF Gt(result.score, 1800) THEN <<"Elevated Score">>
                   ELSE <<>>)
       IN /\ aiResult' = result
          /\ scoredPatients' =
               push(scoredPatients, UpdatedPatient(patient, result, warnings))
  /\ UNCHANGED <<text, pc, rejection, patients, page>>

\* One iteration of the loop of applyRiskScoring; a TypeError rejects the
\* promise of applyRiskScoring.
ScorePatient ==
  /\ pc = "scoring"
  /\ Len(scoredPatients) < Len(patients)
  /\ LET patient == patients[Len(scoredPatients) + 1]
     IN IF Throws(patient)
          THEN /\ pc' = "rejected"
               /\ rejection' = TypeError
               /\ UNCHANGED <<scoredPatients, aiResult>>
          ELSE /\ \E year \in Years, mlVariation \in MlVariations :
                    LET result ==
                          simulateAdvancedAIRiskScoring(patient, year,
                                                        mlVariation)
                        warnings == applyEnhancedBusinessRules(patient)
                    IN /\ aiResult' = result
                       /\ scoredPatients' =
                            push(scoredPatients,
                                 UpdatedPatient(patient, result, warnings))
               /\ UNCHANGED <<pc, rejection>>
  /\ UNCHANGED <<text, patients, page>>

\* return scoredPatients
ScoreReturn ==
  /\ pc = "scoring"
  /\ Len(scoredPatients) = Len(patients)
  /\ pc' = "scored"
  /\ UNCHANGED <<text, rejection, patients, scoredPatients, aiResult, page>>

Next == ReaderOnLoad \/ ReaderOnError \/ ScorePatient \/ ScoreReturn

\* The number of files the user hands to the uploader.
MaxUploads == 2

Uploads == 1..MaxUploads

\* A file not yet handed over.  stage is the position of its handlers; text
\* is its content; mount is the CSVUploader it was handed to; patients and
\* scoredPatients are the locals of its processCSVData and applyRiskScoring;
\* errors counts the error messages shown for it.
NoUpload ==
  [stage |-> "none", text |-> <<>>, mount |-> 0, patients |-> <<>>,
   scoredPatients |-> <<>>, errors |-> 0]

\* The page as first rendered: no data, one CSVUploader mounted.
PageStart ==
  /\ uploads = [u \in Uploads |-> NoUpload]
  /\ statePatients = <<>>
  /\ isProcessing = FALSE
  /\ hasData = FALSE
  /\ validationError = <<>>
  /\ toasts = <<>>
  /\ mounts = 1
  /\ progress = 0
  /\ timers = [u \in Uploads |-> 0]

\* The state when readAsText(file) has been called on a file of content t.
Start(t) ==
  /\ PageStart
  /\ text = t
  /\ pc = "reading"
  /\ rejection = ""
  /\ patients = <<>>
  /\ scoredPatients = <<>>
  /\ aiResult = NoResult

-----------------------------------------------------------------------------
(* The uploaded files.  A file is built from lines, a line from cells, so   *)
(* that the cases are reached with few characters; the parser sees the      *)
(* characters alone.                                                        *)

MaxLines == 3
MaxOverrides == 1

\* array.join(sep)
RECURSIVE join(_, _)
join(parts, sep) ==
  IF parts = <<>> THEN <<>>
  ELSE IF Len(parts) = 1 THEN parts[1]
  ELSE parts[1] \o <<sep>> \o join(Tail(parts), sep)

\* The header and three of the rows of SAMPLE_CSV_DATA.
SampleHeader ==
  <<"Patient_ID", "Full_Name", "DOB", "Gender", "Prescriber_NPI",
    "Prescriber_DEA", "Prescriber_Name", "Pharmacy_Name", "Drug_Name",
    "Drug_Code", "Prescription_Date", "Dispense_Date", "Refill_Date",
    "Days_Supplied", "Dosage_mg", "Quantity", "Refill_Number", "Payment_Type",
    "Pickup_Method", "State_PDMP_Status", "Overlapping_Prescriptions",
    "Adherence_Score", "Notes">>

ColumnIndex(column) ==
  CHOOSE i \in 1..Len(SampleHeader) : SampleHeader[i] = column

RowOf(cells) == [c \in Columns |-> cells[ColumnIndex(c)]]

SampleP001 ==
  RowOf(<< <<"P001">>, <<"John Smith">>, <<"1985-03-15">>, <<"M">>,
           <<"1234567890">>, <<"AS1234567">>, <<"Dr. Sarah Johnson">>,
           <<"Central Pharmacy">>, <<"Oxycodone">>, <<"12345-678-90">>,
           <<"2024-01-15">>, <<"2024-01-16">>, <<>>, <<"3", "0">>,
           <<"1", "0">>, <<"9", "0">>, <<"0">>, <<"Insurance">>,
           <<"In-person">>, <<"Matched">>, <<"FALSE">>,
           <<"8", "5", ".", "5">>, <<"Initial prescription">> >>)

SampleP003 ==
  RowOf(<< <<"P003">>, <<"Robert Davis">>, <<"1990-07-08">>, <<"M">>,
           <<"1122334455">>, <<"CW1122334">>, <<"Dr. Emily Wilson">>,
           <<"Downtown Pharmacy">>, <<"Fentanyl">>, <<"11223-344-55">>,
           <<"2024-01-20">>, <<"2024-01-20">>, <<"2024-01-25">>, <<"7">>,
           <<"2", "5">>, <<"1", "4">>, <<"1">>, <<"Cash">>, <<"In-person">>,
           <<"Unmatched">>, <<"TRUE">>, <<"4", "5", ".", "2">>,
           <<"Early refill request">> >>)

SampleP005 ==
  RowOf(<< <<"P005">>, <<"David Wilson">>, <<"1975-09-14">>, <<"M">>,
           <<"9988776655">>, <<"AS1234567">>, <<"Dr. Sarah Johnson">>,
           <<"Central Pharmacy">>, <<"Oxycodone">>, <<"12345-678-90">>,
           <<"2024-01-25">>, <<"2024-01-26">>, <<>>, <<"3", "0">>,
           <<"1", "5">>, <<"1", "2", "0">>, <<"0">>, <<"Insurance">>,
           <<"In-person">>, <<"Matched">>, <<"TRUE">>,
           <<"6", "5", ".", "3">>, <<"High quantity prescription">> >>)

\* A row with the cells of some columns replaced.
Override(row, cells) ==
  [c \in Columns |-> IF c \in DOMAIN cells THEN cells[c] ELSE row[c]]

\* The high-risk example row: P001 with the seven cells of the example.
ExtremeRow ==
  Override(SampleP001,
           [c \in {"Dosage_mg", "Quantity", "Payment_Type",
                   "Overlapping_Prescriptions", "Refill_Number",
                   "State_PDMP_Status", "Days_Supplied"} |->
              CASE c = "Dosage_mg" -> <<"1", "5", "0">>
                [] c = "Quantity" -> <<"2", "0", "0">>
                [] c = "Payment_Type" -> <<"Cash">>
                [] c = "Overlapping_Prescriptions" -> <<"TRUE">>
                [] c = "Refill_Number" -> <<"7">>
                [] c = "State_PDMP_Status" -> <<"Unmatched">>
                [] c = "Days_Supplied" -> <<"3", "0">>])

\* The minimal example row: every numeric cell 0, no adherence score.
MinimalRow ==
  Override(SampleP001,
           [c \in {"Dosage_mg", "Quantity", "Refill_Number", "Days_Supplied",
                   "Adherence_Score", "Drug_Name"} |->
              CASE c = "Adherence_Score" -> <<>>
                [] c = "Drug_Name" -> <<"Tramadol">>
                [] OTHER -> <<"0">>])

\* The minimal row with a supply of 100 days.
LongSupplyRow ==
  Override(MinimalRow, [c \in {"Days_Supplied"} |-> <<"1", "0", "0">>])

\* The minimal row paid in cash, with a supply of 30 days: no score rule
\* fires but the payment rule.
QuietCashRow ==
  Override(MinimalRow,
           [c \in {"Days_Supplied", "Payment_Type"} |->
              IF c = "Payment_Type" THEN <<"Cash">> ELSE <<"3", "0">>])

\* The row of empty cells but for the payment type.
EmptyRow ==
  [c \in Columns |-> IF c = "Payment_Type" THEN <<"Insurance">> ELSE <<>>]

BaseRows == {SampleP001, SampleP003, ExtremeRow, MinimalRow, QuietCashRow}

\* The cells tried in place of a base row's cell.
CellChoices ==
  [c \in {"Days_Supplied", "Dosage_mg", "Quantity", "Refill_Number",
          "Adherence_Score", "Payment_Type", "Pickup_Method",
          "State_PDMP_Status", "Overlapping_Prescriptions", "Drug_Name",
          "DOB", "Refill_Date", "Prescription_Date", "Notes", "Full_Name"} |->
     CASE c = "Days_Supplied" ->
            {<<"0">>, <<"5">>, <<"1", "0", "0">>, <<"a", "b", "c">>}
       [] c = "Dosage_mg" ->
            {<<>>, <<"0">>, <<"6", "5">>, <<"8", "5", ".", "5">>, <<"1", "5", "0">>,
             <<"a", "b", "c">>}
       [] c = "Quantity" ->
            {<<"0">>, <<"1", "0", "0">>, <<"1", "5", "0">>, <<"2", "0", "0">>,
             <<"1", "2", "a">>, <<"-", "5">>, <<"a", "b", "c">>}
       [] c = "Refill_Number" -> {<<"4">>, <<"5">>, <<"7">>, <<"a", "b", "c">>}
       [] c = "Adherence_Score" ->
            {<<>>, <<"0">>, <<"5", "5">>, <<"6", "5">>, <<"9", "6">>,
             <<"9", "9">>, <<"a", "b", "c">>}
       [] c = "Payment_Type" -> {<<"Cash">>, <<"Medicaid">>, <<"Insurance">>}
       [] c = "Pickup_Method" -> {<<"Third-party">>, <<"Delivery">>}
       [] c = "State_PDMP_Status" ->
            {<<"Unmatched">>, <<"Not Available">>, <<"Matched">>}
       [] c = "Overlapping_Prescriptions" ->
            {<<"TRUE">>, <<"true">>, <<"FALSE">>, <<"yes">>, <<>>}
       [] c = "Drug_Name" -> {<<"Codeine">>, <<"Tramadol">>, <<"Morphine">>}
       [] c = "DOB" ->
            {<<"2001-06-01">>, <<"1940-02-02">>, <<"unknown">>, <<>>}
       [] c = "Refill_Date" ->
            {<<>>, <<"2024-01-10">>, <<"2024-01-20">>, <<"2024-02-14">>,
             <<"unknown">>}
       [] c = "Prescription_Date" -> {<<>>}
       [] c = "Notes" ->
            {<<>>, <<DQ, "see chart", DQ>>, <<DQ, DQ, "see chart", DQ, DQ>>,
             <<"see", DQ, "chart">>}
       [] c = "Full_Name" -> {<<>>, <<SP, DQ, "Mary Johnson", DQ, SP>>}]

\* The rows that differ from a base row in at most MaxOverrides cells.
VariedRows ==
  {Override(base, cells) :
     base \in BaseRows,
     cells \in UNION {{f \in [cols -> UNION {CellChoices[c] : c \in cols}] :
                         \A c \in cols : f[c] \in CellChoices[c]} :
                      cols \in {k \in SUBSET DOMAIN CellChoices :
                                  Cardinality(k) <= MaxOverrides}}}

\* The sample header without one column, and with a column the parser
\* does not know.
without(header, column) == SelectSeq(header, LAMBDA h : h # column)

OtherHeaders ==
  {without(SampleHeader, c) : c \in Columns}
    \cup {SampleHeader \o <<"Extra_Column">>}

HeaderLine(header) == join([i \in 1..Len(header) |-> <<header[i]>>], COMMA)

RowLine(header, row) ==
  join([i \in 1..Len(header) |->
          IF header[i] \in Columns THEN row[header[i]] ELSE <<"x">>], COMMA)

\* Files of at most MaxLines lines, each blank, a header or a sample row.
LineChoices ==
  {<<>>, <<SP>>, HeaderLine(SampleHeader), RowLine(SampleHeader, SampleP001),
   RowLine(SampleHeader, SampleP003) \o <<CR>>}

LineFiles ==
  {join(lines, LF) :
     lines \in UNION {[1..n -> LineChoices] : n \in 1..MaxLines}}

\* Files of a header, one row under test and the row P005; a header alone;
\* the long-supply row above the row P001.
FieldFiles ==
  {join(<<HeaderLine(SampleHeader), RowLine(SampleHeader, row),
          RowLine(SampleHeader, SampleP005)>>, LF) : row \in VariedRows}
    \cup {join(<<HeaderLine(h), RowLine(h, row), RowLine(h, SampleP005)>>, LF) :
            h \in OtherHeaders, row \in BaseRows}
    \cup {HeaderLine(SampleHeader),
          join(<<HeaderLine(SampleHeader), RowLine(SampleHeader, EmptyRow),
                 RowLine(SampleHeader, SampleP005)>>, LF),
          join(<<HeaderLine(SampleHeader), RowLine(SampleHeader, LongSupplyRow),
                 RowLine(SampleHeader, SampleP001)>>, LF)}

-----------------------------------------------------------------------------
(* The page: CSVUploader (validateCSV, handleDrop, handleFileInput,         *)
(* handleUpload) and Index (handleCSVUpload, handleReset).  Each file the   *)
(* user hands over runs its own chain of handlers; the chains interleave    *)
(* at every await.  The "file" and "dragActive" states of CSVUploader       *)
(* change what is drawn only and are not part of the state.                 *)

REQUIRED_COLUMNS ==
  <<"Patient_ID", "Full_Name", "DOB", "Gender", "Prescriber_NPI",
    "Prescriber_DEA", "Prescriber_Name", "Pharmacy_Name", "Drug_Name",
    "Drug_Code", "Prescription_Date", "Dispense_Date", "Refill_Date",
    "Days_Supplied", "Dosage_mg", "Quantity", "Refill_Number", "Payment_Type",
    "Pickup_Method", "State_PDMP_Status", "Overlapping_Prescriptions",
    "Adherence_Score", "Notes">>

NotCSV == "Please upload a CSV file"
MissingColumns == "Missing required columns: "
ProcessedTitle == "Data processed successfully"
ErrorTitle == "Error processing file"

\* The body of reader.onload of validateCSV: the value the promise resolves
\* with and the validationError it sets (<<>> for null).
validateCSV(t) ==
  LET lines == split(t, LF)
      headers == Cells(lines[1])
      missingColumns ==
        SelectSeq(REQUIRED_COLUMNS,
                  LAMBDA col : \A i \in 1..Len(headers) : headers[i] # <<col>>)
  IN IF Len(lines) < 2 THEN [ok |-> FALSE, error |-> <<FormatError>>]
     ELSE IF Len(missingColumns) > 0
       THEN [ok |-> FALSE, error |-> <<MissingColumns>> \o missingColumns]
     ELSE [ok |-> TRUE, error |-> <<>>]

\* Index renders the CSVUploader, and the CSVUploader its drop zone and its
\* file input.
InputShown == ~hasData /\ ~isProcessing

\* The CSVUploader that upload u was handed to is still on the page.
Mounted(u) == ~hasData /\ uploads[u].mount = mounts

\* The files are numbered in the order the user hands them over.
IsNextUpload(u) ==
  /\ uploads[u].stage = "none"
  /\ \A v \in Uploads : v < u => uploads[v].stage # "none"

\* The handlers of upload u have ended at stage s, showing n more errors: the
\* file and the locals are no longer referred to.
Ended(u, s, n) ==
  [uploads EXCEPT ![u] = [NoUpload EXCEPT !.stage = s,
                                          !.errors = uploads[u].errors + n]]

\* setProgress(n) called by a handler of upload u: React drops the update
\* of a component that is no longer mounted.
SetProgress(u, n) == progress' = IF Mounted(u) THEN n ELSE progress

\* handleFileInput, up to its await of validateCSV.
handleFileInput(u, t) ==
  /\ InputShown
  /\ IsNextUpload(u)
  /\ uploads' = [uploads EXCEPT ![u] =
                   [NoUpload EXCEPT !.stage = "validating", !.text = t,
                                    !.mount = mounts]]
  /\ UNCHANGED <<statePatients, isProcessing, hasData, validationError,
                 toasts, mounts, bar, run>>

\* handleDrop, up to its await of validateCSV; csv tells whether a dropped
\* file has the type text/csv or a name ending in .csv.
handleDrop(u, csv, t) ==
  /\ InputShown
  /\ IsNextUpload(u)
  /\ IF csv
       THEN /\ uploads' = [uploads EXCEPT ![u] =
                            [NoUpload EXCEPT !.stage = "validating",
                                             !.text = t, !.mount = mounts]]
            /\ UNCHANGED validationError
       ELSE /\ uploads' = [uploads EXCEPT ![u] =
                            [NoUpload EXCEPT !.stage = "refused",
                                             !.errors = 1]]
            /\ validationError' = <<NotCSV>>
  /\ UNCHANGED <<statePatients, isProcessing, hasData, toasts, mounts, bar,
                 run>>

\* reader.onload of validateCSV and what follows its await: on true,
\* handleUpload, which sets the progress to 0 and the interval, and
\* handleCSVUpload up to the readAsText of processCSVData.
ValidateOnLoad(u) ==
  /\ uploads[u].stage = "validating"
  /\ LET valid == validateCSV(uploads[u].text)
     IN /\ validationError' =
             IF Mounted(u) THEN valid.error ELSE validationError
        /\ IF valid.ok
             THEN /\ SetProgress(u, 0)
                  /\ timers' = [timers EXCEPT ![u] = uploads[u].mount]
                  /\ isProcessing' = TRUE
                  /\ uploads' = [uploads EXCEPT ![u].stage = "reading"]
             ELSE /\ uploads' =
                       Ended(u, "invalid", IF Mounted(u) THEN 1 ELSE 0)
                  /\ UNCHANGED <<isProcessing, bar>>
  /\ UNCHANGED <<statePatients, hasData, toasts, mounts, run>>

\* The read of validateCSV fails: its reader has no onerror, and the promise
\* stays pending.
ValidateOnError(u) ==
  /\ uploads[u].stage = "validating"
  /\ uploads' = Ended(u, "unread", 0)
  /\ UNCHANGED <<statePatients, isProcessing, hasData, validationError,
                 toasts, mounts, bar, run>>

\* The catch of handleCSVUpload with no finally after it.
CatchWithoutFinally(u) ==
  /\ toasts' = Append(toasts, ErrorTitle)
  /\ uploads' = Ended(u, "failed", 1)
  /\ SetProgress(u, 100)
  /\ UNCHANGED <<statePatients, isProcessing, hasData, validationError,
                 mounts, timers, run>>

\* catch and finally of handleCSVUpload, which returns normally, and the
\* rest of handleUpload after its await: setProgress(100).
Catch(u) ==
  /\ toasts' = Append(toasts, ErrorTitle)
  /\ isProcessing' = FALSE
  /\ uploads' = Ended(u, "failed", 1)
  /\ SetProgress(u, 100)
  /\ UNCHANGED <<statePatients, hasData, validationError, mounts, timers,
                 run>>

\* reader.onload of processCSVData, awaited by handleCSVUpload
UploadOnLoad(u) ==
  /\ uploads[u].stage = "reading"
  /\ LET settled == ProcessText(uploads[u].text)
     IN IF settled.ok
          THEN /\ uploads' = [uploads EXCEPT ![u].stage = "scoring",
                                             ![u].patients = settled.patients]
               /\ UNCHANGED <<statePatients, isProcessing, hasData,
                              validationError, toasts, mounts, bar, run>>
          ELSE Catch(u)

\* A read error taken for an empty result: the run goes on to score.
UploadOnErrorResolves(u) ==
  /\ uploads[u].stage = "reading"
  /\ uploads' = [uploads EXCEPT ![u].stage = "scoring"]
  /\ UNCHANGED <<statePatients, isProcessing, hasData, validationError,
                 toasts, mounts, bar, run>>

\* reader.onerror of processCSVData, awaited by handleCSVUpload
UploadOnError(u) ==
  /\ uploads[u].stage = "reading"
  /\ Catch(u)

\* One iteration of the loop of applyRiskScoring, awaited by handleCSVUpload.
UploadScorePatient(u) ==
  /\ uploads[u].stage = "scoring"
  /\ Len(uploads[u].scoredPatients) < Len(uploads[u].patients)
  /\ LET patient == uploads[u].patients[Len(uploads[u].scoredPatients) + 1]
     IN IF Throws(patient)
          THEN Catch(u)
          ELSE /\ \E year \in Years, mlVariation \in MlVariations :
                    LET result ==
                          simulateAdvancedAIRiskScoring(patient, year,
                                                        mlVariation)
                        warnings == applyEnhancedBusinessRules(patient)
                    IN uploads' =
                         [uploads EXCEPT ![u].scoredPatients =
                            push(@, UpdatedPatient(patient, result, warnings))]
               /\ UNCHANGED <<statePatients, isProcessing, hasData,
                              validationError, toasts, mounts, bar, run>>

\* The return of applyRiskScoring, the rest of handleCSVUpload and the rest
\* of handleUpload: setProgress(100).  With hasData set Index draws the
\* dashboard and the CSVUploader is unmounted.
UploadReturn(u) ==
  /\ uploads[u].stage = "scoring"
  /\ Len(uploads[u].scoredPatients) = Len(uploads[u].patients)
  /\ statePatients' = uploads[u].scoredPatients
  /\ hasData' = TRUE
  /\ toasts' = Append(toasts, ProcessedTitle)
  /\ isProcessing' = FALSE
  /\ validationError' = <<>>
  /\ uploads' = Ended(u, "done", 0)
  /\ SetProgress(u, 100)
  /\ UNCHANGED <<mounts, timers, run>>

\* handleReset: Index draws the upload view again, with a new CSVUploader,
\* whose states start from their initial values.
handleReset ==
  /\ hasData
  /\ statePatients' = <<>>
  /\ hasData' = FALSE
  /\ mounts' = mounts + 1
  /\ validationError' = <<>>
  /\ progress' = 0
  /\ UNCHANGED <<uploads, isProcessing, toasts, timers, run>>

\* The callback of progressInterval of upload u.  React runs the updater of
\* a mounted component only: the interval of an unmounted CSVUploader
\* changes nothing, and is never cleared.
Tick(u) ==
  /\ timers[u] # 0
  /\ ~hasData
  /\ timers[u] = mounts
  /\ IF progress >= 90
       THEN /\ timers' = [timers EXCEPT ![u] = 0]
            /\ UNCHANGED progress
       ELSE /\ progress' = progress + 10
            /\ UNCHANGED timers
  /\ UNCHANGED <<uploads, statePatients, isProcessing, hasData,
                 validationError, toasts, mounts, run>>

\* The files handed to the page: the sample header and the minimal row; the
\* sample header with an unknown column and two rows; the sample header
\* without an optional column and a row; a header alone, with and without a
\* line break.
OptionalColumns == {"Refill_Date", "Prescriber_DEA", "Adherence_Score", "Notes"}

ExtraHeader == SampleHeader \o <<"Extra_Column">>

PageFiles ==
  {join(<<HeaderLine(SampleHeader), RowLine(SampleHeader, MinimalRow)>>, LF),
   join(<<HeaderLine(ExtraHeader), RowLine(ExtraHeader, SampleP003),
          RowLine(ExtraHeader, ExtremeRow)>>, LF),
   HeaderLine(SampleHeader),
   HeaderLine(SampleHeader) \o <<LF>>}
    \cup {join(<<HeaderLine(without(SampleHeader, c)),
                 RowLine(without(SampleHeader, c), SampleP001)>>, LF) :
            c \in OptionalColumns}

NextPage ==
  \/ \E u \in Uploads, t \in PageFiles : handleFileInput(u, t)
  \/ \E u \in Uploads, csv \in BOOLEAN, t \in PageFiles : handleDrop(u, csv, t)
  \/ \E u \in Uploads : ValidateOnLoad(u)
  \/ \E u \in Uploads : ValidateOnError(u)
  \/ \E u \in Uploads : UploadOnLoad(u)
  \/ \E u \in Uploads : UploadOnError(u)
  \/ \E u \in Uploads : UploadScorePatient(u)
  \/ \E u \in Uploads : UploadReturn(u)
  \/ handleReset

\* The files handed to the page where the progress bar is followed: the
\* sample header and the minimal row, and the header alone.
BarFiles ==
  {join(<<HeaderLine(SampleHeader), RowLine(SampleHeader, MinimalRow)>>, LF),
   HeaderLine(SampleHeader)}

\* The page with the callbacks of the progress intervals.  A callback
\* changes progress and timers alone, which no other handler reads:
\* NextPage leaves the callbacks out.
NextBar ==
  \/ \E u \in Uploads, t \in BarFiles : handleFileInput(u, t)
  \/ \E u \in Uploads, csv \in BOOLEAN, t \in BarFiles : handleDrop(u, csv, t)
  \/ \E u \in Uploads : ValidateOnLoad(u)
  \/ \E u \in Uploads : ValidateOnError(u)
  \/ \E u \in Uploads : UploadOnLoad(u)
  \/ \E u \in Uploads : UploadOnError(u)
  \/ \E u \in Uploads : UploadScorePatient(u)
  \/ \E u \in Uploads : UploadReturn(u)
  \/ \E u \in Uploads : Tick(u)
  \/ handleReset

\* The page before any file, with no pipeline run of its own.
InitPage ==
  /\ PageStart
  /\ text = <<>>
  /\ pc = "idle"
  /\ rejection = ""
  /\ patients = <<>>
  /\ scoredPatients = <<>>
  /\ aiResult = NoResult

Init == \E t \in LineFiles : Start(t)
InitFields == \E t \in FieldFiles : Start(t)

Spec == Init /\ [][Next]_vars
SpecFields == InitFields /\ [][Next]_vars
SpecPage == InitPage /\ [][NextPage]_vars
SpecBar == InitPage /\ [][NextBar]_vars

\* The positions a scoring loop can be at: the number of records scored.
Positions ==
  0..Max({Len(ProcessText(t).patients) : t \in PageFiles})

\* A started run goes on: the read of processCSVData completes or fails, the
\* timer each scoring call awaits fires, and the continuation after the
\* last await runs.  The first two are the weak fairness of UploadOnLoad or
\* UploadOnError and of UploadScorePatient with the enabling condition
\* written out: the step is enabled exactly while the run is at that
\* position, and taking it leaves the position.  Nothing obliges the user
\* to hand over files or to reset, nor the read of validateCSV to end.
RunsGoOn ==
  \A u \in Uploads :
    /\ []<>(uploads[u].stage # "reading")
    /\ \A k \in Positions :
         []<>~(/\ uploads[u].stage = "scoring"
               /\ Len(uploads[u].scoredPatients) = k
               /\ k < Len(uploads[u].patients))
    /\ WF_vars(UploadReturn(u))

SpecPageLive == SpecPage /\ RunsGoOn

-----------------------------------------------------------------------------
(* Notions the claims are stated in *)

Range(f) == {f[i] : i \in DOMAIN f}

Parsed == pc \in {"scoring", "scored"}

\* processCSVData has resolved and applyRiskScoring has scored nothing yet.
JustParsed == pc = "scoring" /\ scoredPatients = <<>>

IsBlank(line) == trim(line) = <<>>

\* The non-empty lines of a text.
NonEmptyLines(t) == SelectSeq(split(t, LF), LAMBDA l : ~IsBlank(l))

\* The non-empty lines after the first line.
DataLines(t) == SelectSeq(Tail(split(t, LF)), LAMBDA l : ~IsBlank(l))

LevelOf(p) == p["Risk_Level"].s[1]
WarningsOf(p) == p["Flagged_Warnings"].l

-----------------------------------------------------------------------------
\* C1: every scored record has Risk_Score in [0,1] and AI_Confidence in
\* [0.5,1], also when its file's header lacks columns or its numeric cells
\* are malformed.
C1_ScoreAndConfidenceInRange ==
  \A i \in 1..Len(scoredPatients) :
    LET p == scoredPatients[i]
    IN /\ IsNum(p["Risk_Score"])
       /\ p["Risk_Score"].n >= 0 /\ p["Risk_Score"].n <= 7200
       /\ IsNum(p["AI_Confidence"])
       /\ p["AI_Confidence"].n >= 50 /\ p["AI_Confidence"].n <= 100

\* C2: the Risk_Level of every scored record is the threshold rule applied
\* to its Risk_Score and its number of warnings: High iff score > 0.75 or
\* more than 4 warnings, else Medium iff score > 0.25 or a warning, else Low.
C2_RiskLevelFollowsThresholds ==
  \A i \in 1..Len(scoredPatients) :
    LET p == scoredPatients[i]
        n == Len(WarningsOf(p))
        high == Gt(p["Risk_Score"], 5400) \/ n > 4
        medium == Gt(p["Risk_Score"], 1800) \/ n > 0
    IN /\ (LevelOf(p) = "High") <=> high
       /\ (LevelOf(p) = "Medium") <=> (~high /\ medium)
       /\ (LevelOf(p) = "Low") <=> (~high /\ ~medium)

\* A finished batch holding a record that is High on its warnings alone, or
\* Medium on its warnings alone, next to one that is Medium on its score.
C2_Witness ==
  /\ pc = "scored"
  /\ \E i, j \in 1..Len(scoredPatients) :
       /\ LevelOf(scoredPatients[i]) = "Medium"
       /\ ~Gt(scoredPatients[i]["Risk_Score"], 1800)
       /\ LevelOf(scoredPatients[j]) = "Medium"
       /\ Gt(scoredPatients[j]["Risk_Score"], 1800)
       /\ WarningsOf(scoredPatients[j]) # <<>>

\* C3: a text with fewer than 2 non-empty lines is rejected and never
\* yields a result set.
C3_FewLinesRejected ==
  Len(NonEmptyLines(text)) < 2 => pc \in {"reading", "rejected"}

\* C4: every record of the parser has a value for every non-optional field,
\* also when the header does not name the field's column.
C4_RequiredFieldsSet ==
  \A i \in 1..Len(patients) :
    \A f \in RequiredFields : patients[i][f] \notin {Undef, NaN}

\* C5: scoring the same record twice yields the same scored record: two
\* equal records of one batch are scored alike.
C5_SameRecordSameOutput ==
  pc = "scored" =>
    \A i, j \in 1..Len(patients) :
      patients[i] = patients[j] => scoredPatients[i] = scoredPatients[j]

\* C6: for a record with Days_Supplied = 0 and both dates present, the
\* early-refill rule adds nothing to the score and no factor.
C6_NoEarlyRefillWithoutSupply ==
  Len(scoredPatients) > 0 =>
    LET p == patients[Len(scoredPatients)]
    IN (/\ p["Days_Supplied"] = Num(0)
        /\ Truthy(p["Refill_Date"])
        /\ Truthy(p["Prescription_Date"]))
         => /\ "Early Refill" \notin Range(aiResult.factors)
            /\ "Slightly Early Refill" \notin Range(aiResult.factors)
            /\ EarlyRefillScore(p).score = Num(0)

-----------------------------------------------------------------------------
(* Well-formed cells and what they denote *)

IsDigits(c) == c # <<>> /\ \A i \in 1..Len(c) : IsDigit(c[i])

\* Digits, or digits with one fractional digit.
IsDecimal(c) ==
  \/ IsDigits(c)
  \/ /\ Len(c) >= 3
     /\ c[Len(c) - 1] = DOT
     /\ IsDigit(c[Len(c)])
     /\ IsDigits(SubSeq(c, 1, Len(c) - 2))

\* The number a well-formed cell denotes, in tenths.
Denoted(c) ==
  IF IsDigits(c) THEN 10 * DecimalValue(c)
  ELSE 10 * DecimalValue(SubSeq(c, 1, Len(c) - 2)) + DigitVal[c[Len(c)]]

IsPlain(c) == c # <<>> /\ \A i \in 1..Len(c) : c[i] \notin {DQ, SP, CR, TAB}

WellFormed(column, c) ==
  CASE column \in IntColumns -> IsDigits(c)
    [] column \in FloatColumns \cup {"Adherence_Score"} -> IsDecimal(c)
    [] column = "Overlapping_Prescriptions" ->
         c \in {<<"TRUE">>, <<"FALSE">>, <<"true">>}
    [] OTHER -> IsPlain(c)

\* The value of a well-formed cell after type conversion.
Converted(column, c) ==
  CASE column \in IntColumns \cup FloatColumns \cup {"Adherence_Score"} ->
         Num(Denoted(c))
    [] column = "Overlapping_Prescriptions" ->
         Bool(c \in {<<"TRUE">>, <<"true">>})
    [] OTHER -> Str(c)

HasSampleHeader(t) ==
  Cells(split(t, LF)[1]) = [i \in 1..Len(SampleHeader) |-> <<SampleHeader[i]>>]

\* Cells that are no number.
MalformedCells == {<<"a", "b", "c">>, <<"unknown">>}

\* The text with cell c of line l replaced.
ReplaceCell(t, l, c, new) ==
  LET lines == split(t, LF)
      cells == split(lines[l], COMMA)
  IN join([lines EXCEPT ![l] = join([cells EXCEPT ![c] = new], COMMA)], LF)

-----------------------------------------------------------------------------
\* C7: a row whose every cell is present and well-formed parses to a record
\* whose fields equal the cell values after type conversion; a numeric cell
\* 0 stays the number 0.
C7_WellFormedRowRoundTrips ==
  (Parsed /\ HasSampleHeader(text)) =>
    \A k \in 1..Len(DataLines(text)) :
      LET raw == split(DataLines(text)[k], COMMA)
      IN (/\ Len(raw) = Len(SampleHeader)
          /\ \A i \in 1..Len(raw) : WellFormed(SampleHeader[i], raw[i]))
           => \A i \in 1..Len(raw) :
                patients[k][SampleHeader[i]] = Converted(SampleHeader[i], raw[i])

\* C8: a cell that is no number, or is empty, yields 0 for Days_Supplied,
\* Dosage_mg, Quantity and Refill_Number, and absent for Adherence_Score, as
\* does a missing adherence column; and the batch parses to what it parses
\* to with a number in that cell, but for that one field.  (Stated of the
\* state in which processCSVData has just resolved: no later step changes
\* text or patients.)
C8_ParseOrDefault ==
  JustParsed =>
    LET lines == split(text, LF)
        headers == Cells(lines[1])
        rows == {l \in 2..Len(lines) : ~IsBlank(lines[l])}
        \* the record that line l yields
        At(l) == Cardinality({m \in rows : m <= l})
    IN /\ Len(patients) = Cardinality(rows)
       /\ \A l \in rows :
            /\ <<"Adherence_Score">> \notin Range(headers)
                 => patients[At(l)]["Adherence_Score"] = Undef
            /\ \A c \in 1..Len(headers) :
                 LET cell == ValueAt(Cells(trim(lines[l])), c)
                     repaired ==
                       ProcessText(ReplaceCell(text, l, c, <<"1">>))
                 IN /\ (/\ headers[c] \in {<<x>> : x \in IntColumns \cup FloatColumns}
                        /\ cell \in MalformedCells \cup {<<>>})
                          => /\ patients[At(l)][headers[c][1]] = Num(0)
                             /\ repaired.ok
                             /\ repaired.patients =
                                  [patients EXCEPT
                                     ![At(l)][headers[c][1]] = Num(10)]
                    /\ (/\ headers[c] = <<"Adherence_Score">>
                        /\ cell \in MalformedCells \cup {<<>>})
                          => /\ patients[At(l)]["Adherence_Score"] = Undef
                             /\ repaired.ok
                             /\ repaired.patients =
                                  [patients EXCEPT
                                     ![At(l)]["Adherence_Score"] = Num(10)]

\* A parsed batch whose first row has abc for Dosage_mg.
C8_Witness ==
  /\ JustParsed
  /\ HasSampleHeader(text)
  /\ Len(patients) = 2
  /\ Cells(DataLines(text)[1])[ColumnIndex("Dosage_mg")] = <<"a", "b", "c">>
  /\ patients[1]["Dosage_mg"] = Num(0)
  /\ patients[1]["Quantity"] # Num(0)

\* C9: the header is the first non-empty line and every later non-empty
\* line yields one record: a parsed text of n non-empty lines yields n - 1
\* records.
C9_OneRecordPerLineAfterHeader ==
  (Parsed /\ Len(NonEmptyLines(text)) >= 2) =>
    /\ Len(patients) = Len(NonEmptyLines(text)) - 1
    /\ \A k \in 1..Len(patients) :
         patients[k] = ParsePatient(Cells(NonEmptyLines(text)[1]),
                                    Cells(trim(NonEmptyLines(text)[k + 1])))

\* C10: the parser emits one record per non-empty line after the first, in
\* line order, and the scored sequence follows it: record i of the scored
\* sequence is record i of the parsed one with its four calculated fields
\* set, and the finished sequence has the same length.
C10_OrderAndCardinality ==
  /\ Parsed =>
       /\ Len(patients) = Len(DataLines(text))
       /\ \A k \in 1..Len(patients) :
            patients[k] = ParsePatient(Cells(split(text, LF)[1]),
                                       Cells(trim(DataLines(text)[k])))
  /\ Len(scoredPatients) <= Len(patients)
  /\ pc = "scored" => Len(scoredPatients) = Len(patients)
  /\ \A i \in 1..Len(scoredPatients) :
       /\ \A f \in Columns : scoredPatients[i][f] = patients[i][f]
       /\ WarningsOf(scoredPatients[i]) = applyEnhancedBusinessRules(patients[i])

\* A finished batch of the rows P003 and P001, in that order.
C10_Witness ==
  /\ pc = "scored"
  /\ Len(scoredPatients) = 2
  /\ scoredPatients[1]["Patient_ID"] = Str(<<"P003">>)
  /\ scoredPatients[2]["Patient_ID"] = Str(<<"P001">>)
  /\ LevelOf(scoredPatients[1]) # LevelOf(scoredPatients[2])

-----------------------------------------------------------------------------
\* The rules whose label sets hold a label.
RulesOf(label) == {r \in DOMAIN WarningLabels : label \in WarningLabels[r]}

\* C11: the Flagged_Warnings of every scored record holds no label twice:
\* every label is a label of exactly one of the eleven rules, and the labels
\* appear in the order of their rules, at most one label per rule.
C11_WarningsDistinctInRuleOrder ==
  \A i \in 1..Len(scoredPatients) :
    LET w == WarningsOf(scoredPatients[i])
    IN /\ \A a \in 1..Len(w) : Cardinality(RulesOf(w[a])) = 1
       /\ \A a, b \in 1..Len(w) :
            a < b => /\ w[a] # w[b]
                     /\ \A r \in RulesOf(w[a]), q \in RulesOf(w[b]) : r < q

\* A scored record with more than four warnings, of the dosage, quantity,
\* overlap, cash, refill and PDMP rules.
C11_Witness ==
  \E i \in 1..Len(scoredPatients) :
    LET w == WarningsOf(scoredPatients[i])
    IN /\ Len(w) > 4
       /\ "Extremely High Dosage" \in Range(w)
       /\ "Excessive Refills" \in Range(w)
       /\ "PDMP Status Unmatched" \in Range(w)

-----------------------------------------------------------------------------
\* The uploads whose handleCSVUpload has started and not ended.
InFlight == {u \in Uploads : uploads[u].stage \in {"reading", "scoring"}}

\* C12: under any interleaving of file selections, drops and file-read
\* completions, at most one run of handleCSVUpload is in flight.
C12_OneRunInFlight == Cardinality(InFlight) <= 1

\* C13: within one run scoring never begins before parsing has completed:
\* a run starts to score only from its read, with the file parsed to one
\* record per data line and nothing scored yet; it scores a record only
\* while it holds that complete sequence; and a run whose processCSVData
\* rejected does nothing more.
C13_ScoringAfterParsing ==
  [][\A u \in Uploads :
       /\ (uploads'[u].stage = "scoring" /\ uploads[u].stage # "scoring")
            => /\ uploads[u].stage = "reading"
               /\ ProcessText(uploads[u].text).ok
               /\ Len(uploads'[u].patients) = Len(DataLines(uploads[u].text))
               /\ uploads'[u].scoredPatients = <<>>
       /\ Len(uploads'[u].scoredPatients) > Len(uploads[u].scoredPatients)
            => /\ uploads[u].stage = "scoring"
               /\ Len(uploads[u].patients) = Len(DataLines(uploads[u].text))
               /\ uploads'[u].patients = uploads[u].patients
       /\ uploads[u].stage = "failed" => uploads'[u] = uploads[u]]_vars

\* One run has failed on its read and another is scoring its second record.
C13_Witness ==
  \E u, v \in Uploads :
    /\ uploads[u].stage = "failed"
    /\ uploads[v].stage = "scoring"
    /\ Len(uploads[v].patients) = 2
    /\ Len(uploads[v].scoredPatients) = 1

\* The stages of a batch that was not accepted.
Rejected == {"refused", "invalid", "unread", "failed"}

\* C14: a rejected batch (validation, file reading or parsing failed) has
\* shown exactly one error, and the step that rejects it leaves the stored
\* patients and hasData as they were; the step that ends an accepted batch
\* sets patients to its fully scored sequence and hasData to true.
C14_OneErrorAndNothingElse ==
  /\ [](\A u \in Uploads :
          uploads[u].stage \in Rejected => uploads[u].errors = 1)
  /\ [][\A u \in Uploads :
          /\ (uploads'[u].stage \in Rejected /\ uploads[u].stage \notin Rejected)
               => /\ statePatients' = statePatients
                  /\ hasData' = hasData
          /\ (uploads'[u].stage = "done" /\ uploads[u].stage # "done")
               => /\ statePatients' = uploads[u].scoredPatients
                  /\ Len(statePatients') = Len(DataLines(uploads[u].text))
                  /\ \A i \in 1..Len(statePatients') :
                       statePatients'[i]["AI_Confidence"] # Num(0)
                  /\ hasData']_vars

\* C15: the engine never raises for a record of the parser: once a batch is
\* parsed, no step rejects it, whether its numeric fields are all 0, its
\* dates empty or unparsable, its columns missing or its categorical fields
\* outside the vocabularies.
C15_EngineNeverRaises ==
  [][pc = "scoring" => (pc' \in {"scoring", "scored"} /\ rejection' = "")]_vars

\* A finished batch whose first record has every numeric field 0 and a
\* refill date that is no date.
C15_Witness ==
  /\ pc = "scored"
  /\ Len(scoredPatients) = 2
  /\ \A f \in IntColumns \cup FloatColumns : patients[1][f] = Num(0)
  /\ patients[1]["Refill_Date"] = Str(<<"unknown">>)
  /\ getTimeDays(patients[1]["Refill_Date"]) = NaN
  /\ rejection = ""

\* C16: scoring never modifies a record in place: no step of the scoring
\* changes the input array, which is what the parser resolved with, and
\* every scored record equals its input record on every field but
\* Risk_Level, Risk_Score, Flagged_Warnings and AI_Confidence.  (The array
\* is compared with the parser's result where processCSVData has just
\* resolved; it stays so by the first conjunct.)
C16_InputUnchanged ==
  /\ [][pc = "scoring" => (patients' = patients /\ text' = text)]_vars
  /\ [](JustParsed => patients = ProcessText(text).patients)
  /\ [](Parsed =>
         \A i \in 1..Len(scoredPatients) :
           /\ DOMAIN scoredPatients[i] = DOMAIN patients[i]
           /\ \A f \in Fields \ CalculatedFields :
                scoredPatients[i][f] = patients[i][f])

\* A finished batch whose first scored record differs from its input in
\* each of the four calculated fields.
C16_Witness ==
  /\ pc = "scored"
  /\ Len(scoredPatients) = 2
  /\ \A f \in CalculatedFields : scoredPatients[1][f] # patients[1][f]
  /\ patients[1]["Adherence_Score"] = Undef

\* C17: scoring is independent per record: the warnings of a scored record
\* are those of its input record, and its score, confidence and tier are
\* those of its input record for some year of the clock and some
\* perturbation, whatever the other records of the batch and their order;
\* the score before the perturbation and the confidence depend on the
\* record and the year alone.
C17_IndependentPerRecord ==
  \A i \in 1..Len(scoredPatients) :
    LET p == patients[i]
        s == scoredPatients[i]
    IN /\ WarningsOf(s) = applyEnhancedBusinessRules(p)
       /\ \E year \in Years, mlVariation \in MlVariations :
            LET before == SumDeltas(ScoreRules(p, year))
                alone == simulateAdvancedAIRiskScoring(p, year, mlVariation)
            IN /\ s["Risk_Score"] =
                    Clamp(0, 7200, Plus(before.score, Num(mlVariation)))
               /\ s["AI_Confidence"] = alone.confidence
               /\ LevelOf(s) = RiskLevel(s["Risk_Score"], WarningsOf(s))

\* A finished batch of the same record twice, scored with the same
\* warnings and confidence and, the perturbations differing, two scores.
C17_Witness ==
  /\ pc = "scored"
  /\ Len(scoredPatients) = 2
  /\ patients[1] = patients[2]
  /\ WarningsOf(scoredPatients[1]) = WarningsOf(scoredPatients[2])
  /\ scoredPatients[1]["AI_Confidence"] = scoredPatients[2]["AI_Confidence"]
  /\ scoredPatients[1]["Risk_Score"] # scoredPatients[2]["Risk_Score"]

\* A text with a header row and a data row whose header names every column
\* but, at most, optional ones.
LacksOptionalOnly(t) ==
  /\ Len(NonEmptyLines(t)) >= 2
  /\ \A c \in Columns \ OptionalColumns :
       <<c>> \in Range(Cells(split(t, LF)[1]))

\* C18: a file whose header lacks optional columns or holds unknown ones is
\* accepted end to end: validation does not refuse it, and the run that
\* parses it leaves the absent optional fields absent and has no field for
\* an unknown column.
C18_OptionalAndExtraAccepted ==
  [][\A u \in Uploads :
       LacksOptionalOnly(uploads[u].text) =>
         /\ uploads[u].stage = "validating" => uploads'[u].stage # "invalid"
         /\ (uploads[u].stage = "reading" /\ uploads'[u].stage = "scoring")
              => \A k \in 1..Len(uploads'[u].patients) :
                   /\ DOMAIN uploads'[u].patients[k] = Fields
                   /\ \A c \in OptionalColumns :
                        <<c>> \notin Range(Cells(split(uploads[u].text, LF)[1]))
                          => uploads'[u].patients[k][c] = Undef]_vars

\* The example row: Dosage_mg 150, Quantity 200, Cash, overlap, Refill_Number
\* 7, PDMP Unmatched, Days_Supplied 30.
IsExample(p) ==
  /\ p["Dosage_mg"] = Num(1500)
  /\ p["Quantity"] = Num(2000)
  /\ p["Payment_Type"] = Str(<<"Cash">>)
  /\ p["Overlapping_Prescriptions"] = Bool(TRUE)
  /\ p["Refill_Number"] = Num(70)
  /\ p["State_PDMP_Status"] = Str(<<"Unmatched">>)
  /\ p["Days_Supplied"] = Num(300)

\* C19: the example row is scored, whatever the perturbation and its other
\* fields, with Risk_Score 1.0 and Risk_Level High, and more than 4
\* warnings, among them those for extreme dosage, excessive quantity,
\* excessive refills, overlap and PDMP unmatched.
C19_ExampleRowIsHigh ==
  \A i \in 1..Len(scoredPatients) :
    IsExample(patients[i]) =>
      LET s == scoredPatients[i]
      IN /\ s["Risk_Score"] = Num(7200)
         /\ LevelOf(s) = "High"
         /\ Len(WarningsOf(s)) > 4
         /\ {"Extremely High Dosage", "Excessive Quantity Dispensed",
              "Excessive Refills", "Overlapping Prescriptions Detected",
              "PDMP Status Unmatched"} \subseteq Range(WarningsOf(s))

\* The example row, with no drug of the lists, has just been scored.
C19_Witness ==
  /\ pc = "scoring"
  /\ Len(scoredPatients) = 1
  /\ IsExample(patients[1])
  /\ patients[1]["Drug_Name"] = Str(<<"Tramadol">>)
  /\ Len(WarningsOf(scoredPatients[1])) = 6
  /\ Len(aiResult.factors) = 6

\* A minimal record as the claim describes it: every numeric field 0 and no
\* optional field (no adherence score, no refill date), Insurance, no
\* overlap and no PDMP issue.
MinimalAsClaimed(p) ==
  /\ \A f \in IntColumns \cup FloatColumns : p[f] = Num(0)
  /\ p["Adherence_Score"] = Undef
  /\ p["Refill_Date"] = Undef
  /\ p["Payment_Type"] = Str(<<"Insurance">>)
  /\ p["Overlapping_Prescriptions"] = Bool(FALSE)
  /\ p["State_PDMP_Status"] \notin {Str(<<"Unmatched">>), Str(<<"Not Available">>)}

\* ... that moreover is not picked up by a third party or delivered and
\* names no drug of highRiskDrugs.
IsMinimal(p) ==
  /\ MinimalAsClaimed(p)
  /\ p["Pickup_Method"] \notin {Str(<<"Third-party">>), Str(<<"Delivery">>)}
  /\ ~includes(highRiskDrugs, p["Drug_Name"])

\* The conclusion of C20 for scored record s.
ScoredLow(s) ==
  /\ LevelOf(s) = "Low"
  /\ Len(WarningsOf(s)) <= 1
  /\ IsNum(s["Risk_Score"])
  /\ s["Risk_Score"].n >= 0
  /\ s["Risk_Score"].n <= 1800

\* C20: a minimal record (numeric fields 0, Insurance, no overlap, no PDMP
\* issue) is scored, whatever the perturbation, with Risk_Level Low, at most
\* one warning and a Risk_Score not above 0.25.
C20_MinimalRecordIsLow ==
  \A i \in 1..Len(scoredPatients) :
    MinimalAsClaimed(patients[i]) => ScoredLow(scoredPatients[i])

\* C20 as amended: a minimal record that is not picked up by a third party
\* or delivered and names no high-risk opioid is scored, whatever the
\* perturbation, with Risk_Level Low, at most one warning and a Risk_Score
\* not above 0.25.
C20_PlainMinimalRecordIsLow ==
  \A i \in 1..Len(scoredPatients) :
    IsMinimal(patients[i]) => ScoredLow(scoredPatients[i])

\* The row of empty cells has just been scored with the highest
\* perturbation: 0.15 for its supply of 0 days and just under 0.04.
C20_Witness ==
  /\ pc = "scoring"
  /\ Len(scoredPatients) = 1
  /\ IsMinimal(patients[1])
  /\ patients[1]["Drug_Name"] = Str(<<>>)
  /\ aiResult.factors = <<"Unusual Supply Duration">>
  /\ scoredPatients[1]["Risk_Score"] = Num(Pts(15) + 287)
  /\ LevelOf(scoredPatients[1]) = "Low"

-----------------------------------------------------------------------------
\* A cell without its one layer of enclosing double quotes.
stripEnclosing(s) ==
  IF Len(s) >= 2 /\ s[1] = DQ /\ s[Len(s)] = DQ
    THEN SubSeq(s, 2, Len(s) - 1)
  ELSE s

\* The text field a cell converts to: a string, absent for an empty cell of
\* an optional column.
TextField(column, value) ==
  IF column \in StringColumns THEN Str(value) ELSE JsOr(Str(value), Undef)

\* C21: each text field of a parsed record is its cell trimmed of surrounding
\* white space and stripped of one layer of enclosing double quotes; inner
\* and nested double quotes are kept.
C21_OneLayerOfQuotesStripped ==
  (Parsed /\ HasSampleHeader(text)) =>
    \A k \in 1..Len(DataLines(text)) :
      LET raw == split(trim(DataLines(text)[k]), COMMA)
      IN Len(raw) = Len(SampleHeader) =>
           \A i \in 1..Len(raw) :
             SampleHeader[i] \in StringColumns \cup OptionalStringColumns =>
               patients[k][SampleHeader[i]] =
                 TextField(SampleHeader[i], stripEnclosing(trim(raw[i])))

-----------------------------------------------------------------------------
\* The sum of the listed contributions for a record without a refill date,
\* in 1/7200: a field that is no number satisfies no comparison, and the
\* quantity term of a quantity that is no number is no number.
ListedSum(p, year) ==
  LET dosage == IF Gt(p["Dosage_mg"], 1200) THEN 40
                ELSE IF Gt(p["Dosage_mg"], 800) THEN 30
                ELSE IF Gt(p["Dosage_mg"], 500) THEN 20
                ELSE 0
      supply == IF Gt(p["Days_Supplied"], 450) \/ Lt(p["Days_Supplied"], 150)
                  THEN 15 ELSE 0
      payment == IF p["Payment_Type"] = Str(<<"Cash">>) THEN 20
                 ELSE IF p["Payment_Type"] = Str(<<"Medicaid">>) THEN 5
                 ELSE 0
      refills == IF Gt(p["Refill_Number"], 50) THEN 15
                 ELSE IF Gt(p["Refill_Number"], 30) THEN 8
                 ELSE 0
      overlap == IF p["Overlapping_Prescriptions"] = Bool(TRUE) THEN 25 ELSE 0
      pdmp == IF p["State_PDMP_Status"] = Str(<<"Unmatched">>) THEN 20
              ELSE IF p["State_PDMP_Status"] = Str(<<"Not Available">>) THEN 10
              ELSE 0
      adherence == IF Lt(p["Adherence_Score"], 500) THEN 15
                   ELSE IF Lt(p["Adherence_Score"], 700) THEN 10
                   ELSE IF Gt(p["Adherence_Score"], 950) THEN 5
                   ELSE 0
      pickup == IF p["Pickup_Method"] = Str(<<"Third-party">>) THEN 10
                ELSE IF p["Pickup_Method"] = Str(<<"Delivery">>) THEN 5
                ELSE 0
      drug == IF \E d \in highRiskDrugs : p["Drug_Name"] = Str(<<d>>)
                THEN 10 ELSE 0
      age == IF IsDate(p["DOB"])
                  /\ (year - Calendar[p["DOB"].s[1]].year < 25
                        \/ year - Calendar[p["DOB"].s[1]].year > 75)
               THEN 5 ELSE 0
      rules == dosage + supply + payment + refills + overlap + pdmp
                 + adherence + pickup + drug + age
  IN IF IsNum(p["Quantity"])
       THEN Num(72 * rules
                  + (IF p["Quantity"].n < 1800 THEN p["Quantity"].n ELSE 1800))
     ELSE NaN

\* C22: for a record without a refill date, the score before clamping with
\* the perturbation at 0 is the sum of the listed contributions, and the
\* stored Risk_Score is that sum with a perturbation added, clamped.
C22_ScoreIsSumOfListedRules ==
  \A i \in 1..Len(scoredPatients) :
    patients[i]["Refill_Date"] = Undef =>
      /\ \A year \in Years :
           scoreBeforeClamp(patients[i], year, 0) = ListedSum(patients[i], year)
      /\ \E year \in Years, mlVariation \in MlVariations :
           scoredPatients[i]["Risk_Score"] =
             Clamp(0, 7200,
                   Plus(ListedSum(patients[i], year), Num(mlVariation)))

\* The row P005 (quantity 120, overlap, adherence 65.3, Oxycodone; no refill
\* date) scored with no perturbation: 1200 + 72 * (25 + 10 + 10) = 4440.
C22_Witness ==
  /\ Len(scoredPatients) = 2
  /\ patients[2]["Patient_ID"] = Str(<<"P005">>)
  /\ patients[2]["Refill_Date"] = Undef
  /\ aiResult.factors =
       <<"Overlapping Prescriptions", "Poor Adherence", "High-Risk Opioid">>
  /\ scoredPatients[2]["Risk_Score"] = Num(4440)

-----------------------------------------------------------------------------
\* The score rules that added a non-zero amount for record p.
Fired(p, year) ==
  {r \in DOMAIN ScoreRules(p, year) : ScoreRules(p, year)[r].score # Num(0)}

\* The confidence the adjustments give for record p and n factors.
ListedConfidence(p, n) ==
  80 - (IF p["Payment_Type"] = Str(<<"Cash">>) THEN 5 ELSE 0)
     + (IF p["Overlapping_Prescriptions"] = Bool(TRUE) THEN 10 ELSE 0)
     - (IF p["State_PDMP_Status"] = Str(<<"Not Available">>) THEN 5 ELSE 0)
     + (IF n > 5 THEN 10 ELSE 0)
     - (IF n < 2 THEN 10 ELSE 0)

\* The confidence of the latest result is the listed adjustments of 0.8.
ConfidenceAsListed ==
  Len(scoredPatients) > 0 =>
    aiResult.confidence =
      Num(ListedConfidence(patients[Len(scoredPatients)],
                           Len(aiResult.factors)))

\* C23: the factors of the latest result hold one label for each score rule
\* that added a non-zero amount and none for the others, and its confidence
\* is 0.8 with the listed adjustments.
C23_OneFactorPerFiredRule ==
  Len(scoredPatients) > 0 =>
    LET p == patients[Len(scoredPatients)]
    IN /\ \E year \in Years :
            /\ Len(aiResult.factors) = Cardinality(Fired(p, year))
            /\ \A r \in DOMAIN ScoreRules(p, year) :
                 Len(ScoreRules(p, year)[r].factors) =
                   IF r \in Fired(p, year) THEN 1 ELSE 0
       /\ ConfidenceAsListed

-----------------------------------------------------------------------------
\* The weighted score of scored record s is a number of at most 0.25.
LowScore(s) == IsNum(s["Risk_Score"]) /\ s["Risk_Score"].n <= 1800

\* C24: either signal alone escalates the tier: a scored record with a
\* warning is Medium or High though its score is at most 0.25, and a scored
\* record with a score above 0.25 is Medium or High though it has no warning.
C24_EitherSignalEscalates ==
  \A i \in 1..Len(scoredPatients) :
    LET s == scoredPatients[i]
    IN /\ (LowScore(s) /\ WarningsOf(s) # <<>>)
            => LevelOf(s) \in {"Medium", "High"}
       /\ (Gt(s["Risk_Score"], 1800) /\ WarningsOf(s) = <<>>)
            => LevelOf(s) \in {"Medium", "High"}

\* A finished batch of both kinds: the long-supply row, Medium on its one
\* warning with a score of at most 0.25, above the row P001, Medium on its
\* score of 0.265 with no warning.
C24_Witness ==
  /\ pc = "scored"
  /\ Len(scoredPatients) = 2
  /\ LowScore(scoredPatients[1])
  /\ WarningsOf(scoredPatients[1]) = <<"Extended Supply Duration">>
  /\ LevelOf(scoredPatients[1]) = "Medium"
  /\ scoredPatients[2]["Risk_Score"] = Num(1907)
  /\ WarningsOf(scoredPatients[2]) = <<>>
  /\ LevelOf(scoredPatients[2]) = "Medium"

-----------------------------------------------------------------------------
\* C25: whenever the dashboard is shown the stored result set is non-empty
\* and every record of it has been scored (AI_Confidence at least 0.5).
C25_DashboardHasScoredRecords ==
  hasData =>
    /\ statePatients # <<>>
    /\ \A i \in 1..Len(statePatients) :
         /\ IsNum(statePatients[i]["AI_Confidence"])
         /\ statePatients[i]["AI_Confidence"].n >= 50

-----------------------------------------------------------------------------
\* handleCSVUpload of upload u has set isProcessing and has not returned.
Running(u) == uploads[u].stage \in {"reading", "scoring"}

\* handleCSVUpload of upload u has returned, and isProcessing is false.
Released(u) == uploads[u].stage \in {"done", "failed"} /\ ~isProcessing

\* C26: every started run finishes and releases the processing flag: a run
\* that has set isProcessing leads to its end, in success or in failure,
\* with isProcessing false.
C26_RunReleasesProcessingFlag ==
  \A u \in Uploads : Running(u) ~> Released(u)

\* One run has failed and another has succeeded, and the flag is released.
C26_Witness ==
  /\ uploads[1].stage = "failed"
  /\ uploads[2].stage = "done"
  /\ ~isProcessing
  /\ toasts = <<ErrorTitle, ProcessedTitle>>

-----------------------------------------------------------------------------
\* The run of upload u fails in this step.
Fails(u) == Running(u) /\ uploads'[u].stage = "failed"

\* The run of upload u succeeds in this step.
Succeeds(u) == Running(u) /\ uploads'[u].stage = "done"

\* The progress stays within 0..100.
ProgressInRange == progress \in 0..100

\* C27: when a run fails its progress interval is stopped and the progress
\* of its uploader is set to 0; the progress becomes 100 only in a step in
\* which a run succeeds; and the progress stays within 0..100.
C27_FailureResetsProgress ==
  /\ []ProgressInRange
  /\ [][/\ \A u \in Uploads :
             Fails(u) => /\ timers'[u] = 0
                         /\ Mounted(u) => progress' = 0
        /\ (progress' = 100 /\ progress # 100)
             => \E u \in Uploads : Succeeds(u)]_vars

-----------------------------------------------------------------------------
\* C28: the confidence of every scored record, and of the latest result of
\* the weighted-score function, is at least 0.65: the lower clamp at 0.5 is
\* never the active bound.
C28_ConfidenceAtLeast65 ==
  /\ \A i \in 1..Len(scoredPatients) :
       /\ IsNum(scoredPatients[i]["AI_Confidence"])
       /\ scoredPatients[i]["AI_Confidence"].n >= 65
  /\ Len(scoredPatients) > 0 =>
       /\ aiResult.confidence.n >= 65
       /\ ConfidenceAsListed

\* The bound is met: the quiet cash row has the one factor of its payment,
\* and 0.8 - 0.05 - 0.1 = 0.65.
C28_Witness ==
  /\ Len(scoredPatients) = 1
  /\ patients[1]["Payment_Type"] = Str(<<"Cash">>)
  /\ aiResult.factors = <<"Cash Payment">>
  /\ scoredPatients[1]["AI_Confidence"] = Num(65)

-----------------------------------------------------------------------------
\* The side of the thresholds 0.25 and 0.75 the score of scored record s is
\* on.
Side(s) ==
  IF Gt(s["Risk_Score"], 5400) THEN 2
  ELSE IF Gt(s["Risk_Score"], 1800) THEN 1
  ELSE 0

\* C29: two scorings of the same record give the same Flagged_Warnings, the
\* warnings the rules give for the record alone, and give different
\* Risk_Levels only when their scores lie on different sides of 0.25 or of
\* 0.75.
C29_WarningsDeterministic ==
  \A i, j \in 1..Len(scoredPatients) :
    patients[i] = patients[j] =>
      /\ WarningsOf(scoredPatients[i]) = WarningsOf(scoredPatients[j])
      /\ WarningsOf(scoredPatients[i]) = applyEnhancedBusinessRules(patients[i])
      /\ LevelOf(scoredPatients[i]) # LevelOf(scoredPatients[j])
           => Side(scoredPatients[i]) # Side(scoredPatients[j])

\* The row P001 scored twice in one batch: no warning either time, Low at
\* 0.225 and Medium at 0.265.
C29_Witness ==
  /\ Len(scoredPatients) = 2
  /\ patients[1] = patients[2]
  /\ WarningsOf(scoredPatients[1]) = <<>>
  /\ WarningsOf(scoredPatients[2]) = <<>>
  /\ scoredPatients[1]["Risk_Score"] = Num(1620)
  /\ LevelOf(scoredPatients[1]) = "Low"
  /\ scoredPatients[2]["Risk_Score"] = Num(1907)
  /\ LevelOf(scoredPatients[2]) = "Medium"

=============================================================================
